---- MODULE Spec2Model ----
(***************************************************************************)
(* A model of the structured-logging wrapper in logger.go (the Logger      *)
(* handle, its construction pipeline, field/context derivation, leveled    *)
(* emission and Trace) and of the process-wide singleton with its          *)
(* package-level delegates.                                                *)
(*                                                                         *)
(* Four specifications share the state:                                    *)
(*   Spec        the construction pipeline: New*/Init* over the option     *)
(*               space and the file system;                                *)
(*   SpecDerive  goroutines deriving child handles step by step;           *)
(*   SpecEmit    the singleton and the emission entry points;              *)
(*   SpecTrace   Trace and its completion function under a moving clock.   *)
(***************************************************************************)
EXTENDS Integers, Sequences, FiniteSets, TLC

VARIABLES
    fs,        \* the file system at the log path: [path -> [dir, file]]
    logger,    \* the package-level singleton  (var logger *Logger)
    heap,      \* the *Logger values the program holds, by allocation order
    derived,   \* for each heap cell, how it was made (history)
    gor,       \* each goroutine's position inside With / WithContext
    out,       \* the records the engine wrote during the most recent call
    clock,     \* the monotonic clock read by time.Now / time.Since
    spans,     \* the completion closures Trace has returned
    ret,       \* what the most recent call returned to its caller
    status,    \* "running", "panicked" (nil dereference) or "exited" (Fatal)
    lastInit   \* outcome of the most recent Init*: "none", "ok", "err",
               \* or "err after ok" when an earlier Init* had succeeded

vars == <<fs, logger, heap, derived, gor, out, clock, spans, ret, status, lastInit>>

(***************************************************************************)
(* Bounds of the model.                                                    *)
(***************************************************************************)
MaxOpts == 3
MaxHeap == 3
MaxKept == 1
MaxSpans == 1
MaxClock == 2

(***************************************************************************)
(* Package constants.                                                      *)
(***************************************************************************)
Development == "development"
Production == "production"
RequestKey == "request_id"
UserKey == "user_id"
ServerName == "rhino_logger"
Version == "v1.0.0"

DefaultPath == "logs/run.log"
Paths == {DefaultPath}

\* A nil *Logger and a nil *zap.Logger.
Nil == [nil |-> TRUE]
NilZap == [nilzap |-> TRUE]

(***************************************************************************)
(* zap fields.                                                             *)
(***************************************************************************)
zapString(key, val) == [key |-> key, type |-> "string", val |-> val]
zapError(err) == [key |-> "error", type |-> "error", val |-> err]
zapDuration(key, d) == [key |-> key, type |-> "duration", val |-> d]

(***************************************************************************)
(* Functional options.  An option is the field it assigns and the value.   *)
(***************************************************************************)
WithEnv(env) == [field |-> "env", val |-> env]
WithServiceName(serviceName) == [field |-> "serviceName", val |-> serviceName]
WithVersionName(versionName) == [field |-> "versionName", val |-> versionName]
WithRequestKey(requestKey) == [field |-> "requestKey", val |-> requestKey]
WithUserKey(userKey) == [field |-> "userKey", val |-> userKey]
WithLogToFile(logToFile) == [field |-> "logToFile", val |-> logToFile]
WithRotate(rotate) == [field |-> "rotate", val |-> rotate]
WithRotatePath(rotatePath) == [field |-> "rotatePath", val |-> rotatePath]
WithRotateSize(rotateSize) == [field |-> "rotateSize", val |-> rotateSize]
WithRotateAge(rotateAge) == [field |-> "rotateAge", val |-> rotateAge]
WithRotateBackups(rotateBackups) == [field |-> "rotateBackups", val |-> rotateBackups]
WithRotateCompress(rotateCompress) == [field |-> "rotateCompress", val |-> rotateCompress]

\* for _, opt := range opts { opt(l) }
RECURSIVE ApplyOpts(_, _)
ApplyOpts(l, opts) ==
    IF opts = <<>> THEN l
    ELSE ApplyOpts([l EXCEPT ![Head(opts).field] = Head(opts).val], Tail(opts))

\* The Logger literal New starts from.
NewDefaults ==
    [env |-> Development, serviceName |-> ServerName, versionName |-> Version,
     requestKey |-> RequestKey, userKey |-> UserKey,
     logToFile |-> FALSE, rotate |-> FALSE, rotatePath |-> DefaultPath,
     rotateSize |-> 10, rotateAge |-> 7, rotateBackups |-> 10,
     rotateCompress |-> FALSE, zap |-> NilZap]

\* The Logger literal Init starts from (logToFile is left at its zero value).
InitDefaults ==
    [env |-> Development, serviceName |-> ServerName, versionName |-> Version,
     requestKey |-> RequestKey, userKey |-> UserKey,
     logToFile |-> FALSE, rotate |-> FALSE, rotatePath |-> DefaultPath,
     rotateSize |-> 10, rotateAge |-> 7, rotateBackups |-> 10,
     rotateCompress |-> FALSE, zap |-> NilZap]

\* &Logger{zap: z}: every other field has its zero value.
Wrap(z) ==
    [env |-> "", serviceName |-> "", versionName |-> "",
     requestKey |-> "", userKey |-> "",
     logToFile |-> FALSE, rotate |-> FALSE, rotatePath |-> "",
     rotateSize |-> 0, rotateAge |-> 0, rotateBackups |-> 0,
     rotateCompress |-> FALSE, zap |-> z]

\* The options of the two presets.
DevelopmentOpts ==
    <<WithEnv(Development), WithServiceName(ServerName), WithVersionName(Version),
      WithRequestKey(RequestKey), WithUserKey(UserKey)>>

ProductionOpts ==
    <<WithEnv(Production), WithServiceName(ServerName), WithVersionName(Version),
      WithRequestKey(RequestKey), WithUserKey(UserKey),
      WithRotate(TRUE), WithRotatePath(DefaultPath), WithRotateSize(10),
      WithRotateAge(30), WithRotateBackups(30), WithRotateCompress(FALSE)>>

(***************************************************************************)
(* The file system and the path helpers.  io says which system calls       *)
(* succeed: [mkdir, create, open]; at most one of them fails in a call.    *)
(***************************************************************************)
FsStates == [Paths -> {d \in [dir : BOOLEAN, file : BOOLEAN] : d.file => d.dir}]
IOs == {io \in [mkdir : BOOLEAN, create : BOOLEAN, open : BOOLEAN] :
            Cardinality({c \in {"mkdir", "create", "open"} : ~io[c]}) <= 1}

\* os.Stat(path) succeeds.
isExist(f, path) == f[path].file

\* os.MkdirAll(dir, 0o755)
MkdirAll(f, path, io) ==
    IF f[path].dir THEN [err |-> FALSE, fs |-> f]
    ELSE IF io.mkdir THEN [err |-> FALSE, fs |-> [f EXCEPT ![path].dir = TRUE]]
    ELSE [err |-> TRUE, fs |-> f]

\* os.Create(path)
createFile(f, path, io) ==
    IF f[path].dir /\ io.create
    THEN [ok |-> TRUE, fs |-> [f EXCEPT ![path].file = TRUE]]
    ELSE [ok |-> FALSE, fs |-> f]

checkFile(f, path, io) ==
    IF isExist(f, path) THEN [err |-> FALSE, fs |-> f]
    ELSE LET m == MkdirAll(f, path, io) IN
         IF m.err THEN [err |-> TRUE, fs |-> m.fs]
         ELSE LET c == createFile(m.fs, path, io) IN
              [err |-> ~c.ok, fs |-> c.fs]

\* os.OpenFile(path, O_APPEND|O_CREATE|O_WRONLY, 0o644)
OpenFile(f, path, io) ==
    IF f[path].dir /\ io.open
    THEN [err |-> FALSE, fs |-> [f EXCEPT ![path].file = TRUE]]
    ELSE [err |-> TRUE, fs |-> f]

(***************************************************************************)
(* Sinks, cores and the engine instance.                                   *)
(***************************************************************************)
Sink(kind, path, size, backups, age, compress) ==
    [kind |-> kind, path |-> path, maxSize |-> size, maxBackups |-> backups,
     maxAge |-> age, compress |-> compress]

\* os.Stdout
Stdout == Sink("console", "", 0, 0, 0, FALSE)

\* the *os.File opened for appending
FileSink(path) == Sink("file", path, 0, 0, 0, FALSE)

\* the lumberjack writer
getLogWriter(l) ==
    Sink("rotating", l.rotatePath, l.rotateSize, l.rotateBackups, l.rotateAge,
         l.rotateCompress)

\* zap's level order
LevelRank(level) ==
    CASE level = "debug" -> 0
      [] level = "info" -> 1
      [] level = "warn" -> 2
      [] level = "error" -> 3
      [] level = "fatal" -> 4

\* zap.NewDevelopmentConfig().Level and zap.NewProductionConfig().Level
DevelopmentLevel == "debug"
ProductionLevel == "info"

\* zap.New(core, AddCaller(), AddCallerSkip(1), AddStacktrace(ErrorLevel), Fields(fields...))
zapNew(core, level, fields) ==
    [core |-> core, level |-> level, fields |-> fields,
     addCaller |-> TRUE, callerSkip |-> 1, stacktrace |-> "error"]

\* newZapDevelopment with the console core left out of the rotating branch.
newZapDevelopmentNoTee(l, fields, f, io) ==
    IF ~l.logToFile
    THEN [zap |-> zapNew(<<Stdout>>, DevelopmentLevel, fields), err |-> FALSE, fs |-> f]
    ELSE IF l.rotate
    THEN [zap |-> zapNew(<<getLogWriter(l)>>, DevelopmentLevel, fields),
          err |-> FALSE, fs |-> f]
    ELSE [zap |-> zapNew(<<Stdout>>, DevelopmentLevel, fields), err |-> FALSE, fs |-> f]

newZapDevelopment(l, fields, f, io) ==
    IF ~l.logToFile
    THEN [zap |-> zapNew(<<Stdout>>, DevelopmentLevel, fields), err |-> FALSE, fs |-> f]
    ELSE IF l.rotate
    THEN [zap |-> zapNew(<<getLogWriter(l), Stdout>>, DevelopmentLevel, fields),
          err |-> FALSE, fs |-> f]
    ELSE [zap |-> zapNew(<<Stdout>>, DevelopmentLevel, fields), err |-> FALSE, fs |-> f]

\* newZapProduction with the plain file attached without checkFile/OpenFile.
newZapProductionNoCheck(l, fields, f, io) ==
    IF ~l.logToFile
    THEN [zap |-> zapNew(<<Stdout>>, ProductionLevel, fields), err |-> FALSE, fs |-> f]
    ELSE IF l.rotate
    THEN [zap |-> zapNew(<<getLogWriter(l)>>, ProductionLevel, fields),
          err |-> FALSE, fs |-> f]
    ELSE [zap |-> zapNew(<<FileSink(l.rotatePath)>>, ProductionLevel, fields),
          err |-> FALSE, fs |-> f]

newZapProduction(l, fields, f, io) ==
    IF ~l.logToFile
    THEN [zap |-> zapNew(<<Stdout>>, ProductionLevel, fields), err |-> FALSE, fs |-> f]
    ELSE IF l.rotate
    THEN [zap |-> zapNew(<<getLogWriter(l)>>, ProductionLevel, fields),
          err |-> FALSE, fs |-> f]
    ELSE LET c == checkFile(f, l.rotatePath, io) IN
         IF c.err THEN [zap |-> NilZap, err |-> TRUE, fs |-> c.fs]
         ELSE LET o == OpenFile(c.fs, l.rotatePath, io) IN
              IF o.err THEN [zap |-> NilZap, err |-> TRUE, fs |-> o.fs]
              ELSE [zap |-> zapNew(<<FileSink(l.rotatePath)>>, ProductionLevel, fields),
                    err |-> FALSE, fs |-> o.fs]

\* The env/service/version tags every record of the handle carries.
zapFields(l) ==
    <<zapString("env", l.env)>>
    \o (IF l.serviceName # "" THEN <<zapString("service", l.serviceName)>> ELSE <<>>)
    \o (IF l.versionName # "" THEN <<zapString("version", l.versionName)>> ELSE <<>>)

\* newZap returning the receiver along with the error.
newZapKeepsHandle(l, f, io) ==
    IF l.env = Development
    THEN LET r == newZapDevelopment(l, zapFields(l), f, io) IN
         [l |-> [l EXCEPT !.zap = r.zap], err |-> r.err, fs |-> r.fs]
    ELSE IF l.env = Production
    THEN LET r == newZapProduction(l, zapFields(l), f, io) IN
         [l |-> [l EXCEPT !.zap = r.zap], err |-> r.err, fs |-> r.fs]
    ELSE [l |-> l, err |-> TRUE, fs |-> f]

\* (l *Logger).newZap: the handle (or nil), the error, and the file system after.
newZap(l, f, io) ==
    IF l.env = Development
    THEN LET r == newZapDevelopment(l, zapFields(l), f, io) IN
         IF r.err THEN [l |-> Nil, err |-> TRUE, fs |-> r.fs]
         ELSE [l |-> [l EXCEPT !.zap = r.zap], err |-> FALSE, fs |-> r.fs]
    ELSE IF l.env = Production
    THEN LET r == newZapProduction(l, zapFields(l), f, io) IN
         IF r.err THEN [l |-> Nil, err |-> TRUE, fs |-> r.fs]
         ELSE [l |-> [l EXCEPT !.zap = r.zap], err |-> FALSE, fs |-> r.fs]
    ELSE [l |-> Nil, err |-> TRUE, fs |-> f]

New(opts, f, io) == newZap(ApplyOpts(NewDefaults, opts), f, io)

NewDevelopment(f, io) == New(DevelopmentOpts, f, io)

NewProduction(f, io) == New(ProductionOpts, f, io)

(***************************************************************************)
(* Deriving handles.                                                       *)
(***************************************************************************)
\* (*zap.Logger).With: a clone of z with the fields added after its own.
zapWith(z, fields) == [z EXCEPT !.fields = @ \o fields]

\* A context is a function from keys to values; a value is a dynamic type
\* and its data.
NilValue == [type |-> "nil", val |-> ""]

\* ctx.Value(key)
Value(ctx, key) == IF key \in DOMAIN ctx THEN ctx[key] ELSE NilValue

\* ctxWith without the type assertion: any value present is attached.
ctxWithAnyType(z, ctx, key) ==
    IF Value(ctx, key).type # "nil"
    THEN zapWith(z, <<zapString(key, Value(ctx, key).val)>>)
    ELSE z

\* if v, ok := ctx.Value(key).(string); ok { z = z.With(zap.String(key, v)) }
ctxWith(z, ctx, key) ==
    IF Value(ctx, key).type = "string"
    THEN zapWith(z, <<zapString(key, Value(ctx, key).val)>>)
    ELSE z

\* return &Logger{zap: newLogger}, with the receiver written through as well.
returnLoggerInPlace(h, loc) ==
    Append([h EXCEPT ![loc.l].zap = loc.newLogger], Wrap(loc.newLogger))

\* return &Logger{zap: newLogger}: a fresh cell; the cells of h stay as they are.
returnLogger(h, loc) == Append(h, Wrap(loc.newLogger))

\* (l *Logger).With
With(l, fields) == Wrap(zapWith(l.zap, fields))

\* (l *Logger).WithContext
WithContext(l, ctx) == Wrap(ctxWith(ctxWith(l.zap, ctx, l.requestKey), ctx, l.userKey))

(***************************************************************************)
(* Emission.  A call stack lists the frames from the user's call site to   *)
(* the function that calls the engine; the engine reports the frame        *)
(* callerSkip below the top.                                               *)
(***************************************************************************)
UserFrame == "main.handler"

Caller(stack, skip) ==
    IF Len(stack) - skip >= 1 THEN stack[Len(stack) - skip] ELSE "runtime"

\* (*zap.Logger).Debug/Info/Warn/Error/Fatal: the records written (none when the
\* level is below the core's threshold).
zapLog(z, level, msg, fields, stack) ==
    IF LevelRank(level) >= LevelRank(z.level)
    THEN <<[sinks |-> z.core, level |-> level, message |-> msg,
            fields |-> z.fields \o fields,
            caller |-> Caller(stack, z.callerSkip),
            stacktrace |-> LevelRank(level) >= LevelRank(z.stacktrace)]>>
    ELSE <<>>

\* A nil error.
NilErr == "<nil>"

Debug(l, stack, msg, fields) ==
    zapLog(l.zap, "debug", msg, fields, Append(stack, "logger.(*Logger).Debug"))

DebugCtx(l, stack, ctx, msg, fields) ==
    zapLog(WithContext(l, ctx).zap, "debug", msg, fields,
           Append(stack, "logger.(*Logger).DebugCtx"))

Info(l, stack, msg, fields) ==
    zapLog(l.zap, "info", msg, fields, Append(stack, "logger.(*Logger).Info"))

InfoCtx(l, stack, ctx, msg, fields) ==
    zapLog(WithContext(l, ctx).zap, "info", msg, fields,
           Append(stack, "logger.(*Logger).InfoCtx"))

Warn(l, stack, msg, fields) ==
    zapLog(l.zap, "warn", msg, fields, Append(stack, "logger.(*Logger).Warn"))

WarnCtx(l, stack, ctx, msg, fields) ==
    zapLog(WithContext(l, ctx).zap, "warn", msg, fields,
           Append(stack, "logger.(*Logger).WarnCtx"))

\* Error with the error left out of the fields.
ErrorDropped(l, stack, msg, err, fields) ==
    zapLog(l.zap, "error", msg, fields, Append(stack, "logger.(*Logger).Error"))

Error(l, stack, msg, err, fields) ==
    zapLog(l.zap, "error", msg,
           IF err # NilErr THEN Append(fields, zapError(err)) ELSE fields,
           Append(stack, "logger.(*Logger).Error"))

ErrorCtx(l, stack, ctx, msg, err, fields) ==
    zapLog(WithContext(l, ctx).zap, "error", msg,
           IF err # NilErr THEN Append(fields, zapError(err)) ELSE fields,
           Append(stack, "logger.(*Logger).ErrorCtx"))

Fatal(l, stack, msg, fields) ==
    zapLog(l.zap, "fatal", msg, fields, Append(stack, "logger.(*Logger).Fatal"))

FatalCtx(l, stack, ctx, msg, fields) ==
    zapLog(WithContext(l, ctx).zap, "fatal", msg, fields,
           Append(stack, "logger.(*Logger).FatalCtx"))

\* (l *Logger).Trace: the start record and the closure it returns.
Trace(l, stack, ctx, funcName, now) ==
    [recs |-> Debug(WithContext(l, ctx), Append(stack, "logger.(*Logger).Trace"),
                    "Starting function", <<zapString("function", funcName)>>),
     span |-> [logger |-> WithContext(l, ctx), startTime |-> now,
               funcName |-> funcName, frame |-> "logger.(*Logger).Trace.func1"]]

\* The closure with the subtraction the wrong way round.
TraceDoneBackwards(span, stack, now) ==
    Debug(span.logger, Append(stack, span.frame), "Finished function",
          <<zapString("function", span.funcName),
            zapDuration("duration", span.startTime - now)>>)

\* The closure Trace returns, called at time now.
TraceDone(span, stack, now) ==
    Debug(span.logger, Append(stack, span.frame), "Finished function",
          <<zapString("function", span.funcName),
            zapDuration("duration", now - span.startTime)>>)

(***************************************************************************)
(* The package-level delegates: each works on the singleton.               *)
(***************************************************************************)
PkgWith(fields) == Wrap(zapWith(logger.zap, fields))

PkgWithContext(ctx) ==
    Wrap(ctxWith(ctxWith(logger.zap, ctx, logger.requestKey), ctx, logger.userKey))

PkgDebug(stack, msg, fields) ==
    zapLog(logger.zap, "debug", msg, fields, Append(stack, "logger.Debug"))

PkgDebugCtx(stack, ctx, msg, fields) ==
    Debug(WithContext(logger, ctx), Append(stack, "logger.DebugCtx"), msg, fields)

PkgInfo(stack, msg, fields) ==
    zapLog(logger.zap, "info", msg, fields, Append(stack, "logger.Info"))

PkgInfoCtx(stack, ctx, msg, fields) ==
    Info(WithContext(logger, ctx), Append(stack, "logger.InfoCtx"), msg, fields)

PkgWarn(stack, msg, fields) ==
    zapLog(logger.zap, "warn", msg, fields, Append(stack, "logger.Warn"))

PkgWarnCtx(stack, ctx, msg, fields) ==
    Warn(WithContext(logger, ctx), Append(stack, "logger.WarnCtx"), msg, fields)

PkgError(stack, msg, err, fields) ==
    zapLog(logger.zap, "error", msg,
           IF err # NilErr THEN Append(fields, zapError(err)) ELSE fields,
           Append(stack, "logger.Error"))

PkgErrorCtx(stack, ctx, msg, err, fields) ==
    Error(WithContext(logger, ctx), Append(stack, "logger.ErrorCtx"), msg, err, fields)

PkgFatal(stack, msg, fields) ==
    zapLog(logger.zap, "fatal", msg, fields, Append(stack, "logger.Fatal"))

PkgFatalCtx(stack, ctx, msg, fields) ==
    Fatal(WithContext(logger, ctx), Append(stack, "logger.FatalCtx"), msg, fields)

PkgTrace(stack, ctx, funcName, now) ==
    [recs |-> Debug(WithContext(logger, ctx), Append(stack, "logger.Trace"),
                    "Starting function", <<zapString("function", funcName)>>),
     span |-> [logger |-> WithContext(logger, ctx), startTime |-> now,
               funcName |-> funcName, frame |-> "logger.Trace.func1"]]

(***************************************************************************)
(* The input sets the actions draw from.                                   *)
(***************************************************************************)
SeqsUpTo(S, n) == UNION {[1..k -> S] : k \in 0..n}

\* The options that steer the construction pipeline.
BuildOptions ==
    <<WithEnv(Development), WithEnv(Production), WithEnv("staging"),
      WithLogToFile(TRUE), WithRotate(TRUE)>>

\* The option lists of at most MaxOpts options, as positions in BuildOptions.
BuildOptSeqs == SeqsUpTo(DOMAIN BuildOptions, MaxOpts)

Pick(options, idx) == [i \in DOMAIN idx |-> options[idx[i]]]

NoRet == [op |-> "none"]

\* What a constructor call hands back, with the configuration it was given.
BuildRet(op, cfg, r, before) ==
    [op |-> op, cfg |-> cfg, l |-> r.l, err |-> r.err, before |-> before]

\* The outcome of an Init* call, remembering whether an earlier one succeeded.
InitOutcome(err) ==
    IF ~err THEN "ok"
    ELSE IF lastInit \in {"ok", "err after ok"} THEN "err after ok"
    ELSE "err"

(***************************************************************************)
(* The constructors and initialisers as actions.                           *)
(***************************************************************************)
DoNew(opts, io) ==
    /\ status = "running"
    /\ LET r == New(opts, fs, io) IN
       /\ fs' = r.fs
       /\ ret' = BuildRet("New", ApplyOpts(NewDefaults, opts), r, fs)
    /\ out' = <<>>
    /\ UNCHANGED <<logger, heap, derived, gor, clock, spans, status, lastInit>>

DoNewDevelopment(io) ==
    /\ status = "running"
    /\ LET r == NewDevelopment(fs, io) IN
       /\ fs' = r.fs
       /\ ret' = BuildRet("NewDevelopment", ApplyOpts(NewDefaults, DevelopmentOpts), r, fs)
    /\ out' = <<>>
    /\ UNCHANGED <<logger, heap, derived, gor, clock, spans, status, lastInit>>

DoNewProduction(io) ==
    /\ status = "running"
    /\ LET r == NewProduction(fs, io) IN
       /\ fs' = r.fs
       /\ ret' = BuildRet("NewProduction", ApplyOpts(NewDefaults, ProductionOpts), r, fs)
    /\ out' = <<>>
    /\ UNCHANGED <<logger, heap, derived, gor, clock, spans, status, lastInit>>

\* Init: logger = &Logger{...}; opts; logger, err = logger.newZap(); return err
DoInit(opts, io) ==
    /\ status = "running"
    /\ LET r == newZap(ApplyOpts(InitDefaults, opts), fs, io) IN
       /\ logger' = r.l
       /\ fs' = r.fs
       /\ lastInit' = InitOutcome(r.err)
       /\ ret' = BuildRet("Init", ApplyOpts(InitDefaults, opts), r, fs)
    /\ out' = <<>>
    /\ UNCHANGED <<heap, derived, gor, clock, spans, status>>

\* InitDevelopment: logger, err = New(...); return err
DoInitDevelopment(io) ==
    /\ status = "running"
    /\ LET r == New(DevelopmentOpts, fs, io) IN
       /\ logger' = r.l
       /\ fs' = r.fs
       /\ lastInit' = InitOutcome(r.err)
       /\ ret' = BuildRet("InitDevelopment", ApplyOpts(NewDefaults, DevelopmentOpts), r, fs)
    /\ out' = <<>>
    /\ UNCHANGED <<heap, derived, gor, clock, spans, status>>

\* InitProduction: logger, err = New(...); return err
DoInitProduction(io) ==
    /\ status = "running"
    /\ LET r == New(ProductionOpts, fs, io) IN
       /\ logger' = r.l
       /\ fs' = r.fs
       /\ lastInit' = InitOutcome(r.err)
       /\ ret' = BuildRet("InitProduction", ApplyOpts(NewDefaults, ProductionOpts), r, fs)
    /\ out' = <<>>
    /\ UNCHANGED <<heap, derived, gor, clock, spans, status>>

(***************************************************************************)
(* Spec: the construction pipeline.  The process starts with no singleton  *)
(* and any state of the log path.                                          *)
(***************************************************************************)
Init ==
    /\ fs \in FsStates
    /\ logger = Nil
    /\ heap = <<>>
    /\ derived = <<>>
    /\ gor = [g \in {} |-> 0]
    /\ out = <<>>
    /\ clock = 0
    /\ spans = <<>>
    /\ ret = NoRet
    /\ status = "running"
    /\ lastInit = "none"

Next ==
    \/ \E idx \in BuildOptSeqs, io \in IOs : DoNew(Pick(BuildOptions, idx), io)
    \/ \E io \in IOs : DoNewDevelopment(io)
    \/ \E io \in IOs : DoNewProduction(io)
    \/ \E idx \in BuildOptSeqs, io \in IOs : DoInit(Pick(BuildOptions, idx), io)
    \/ \E io \in IOs : DoInitDevelopment(io)
    \/ \E io \in IOs : DoInitProduction(io)

Spec == Init /\ [][Next]_vars

(***************************************************************************)
(* Claims about the construction pipeline (checked under Spec).            *)
(***************************************************************************)
BuildOps == {"New", "NewDevelopment", "NewProduction",
             "Init", "InitDevelopment", "InitProduction"}

Environments == {Development, Production}

SinkKinds(z) == {z.core[i].kind : i \in DOMAIN z.core}

\* The sink table of section 4.1 of the specification.
SinkTable(env, logToFile, rotate) ==
    IF env = Development
    THEN IF logToFile /\ rotate THEN {"rotating", "console"} ELSE {"console"}
    ELSE IF ~logToFile THEN {"console"}
    ELSE IF rotate THEN {"rotating"} ELSE {"file"}

\* C1: for every (environment, logToFile, rotate) with a recognised
\* environment the constructor's handle has exactly the sinks of the 4.1
\* table (each once), and fails only when the production plain file cannot
\* be created or opened; with any other environment it returns an error and
\* no handle.
C1_SinkSelection ==
    ret.op \in BuildOps =>
        /\ ret.cfg.env \notin Environments => ret.err /\ ret.l = Nil
        /\ ret.err <=> ret.l = Nil
        /\ (ret.cfg.env \in Environments /\ ~ret.err) =>
              /\ SinkKinds(ret.l.zap)
                     = SinkTable(ret.cfg.env, ret.cfg.logToFile, ret.cfg.rotate)
              /\ Len(ret.l.zap.core) = Cardinality(SinkKinds(ret.l.zap))
              /\ \A i \in DOMAIN ret.l.zap.core :
                    ret.l.zap.core[i].kind # "console"
                        => ret.l.zap.core[i].path = ret.cfg.rotatePath
        /\ (ret.cfg.env \in Environments /\ ret.err) =>
              ret.cfg.env = Production /\ ret.cfg.logToFile /\ ~ret.cfg.rotate

\* C1's case: a development build with a rotating file fans out to both sinks.
C1_Witness ==
    /\ ret.op = "New"
    /\ ret.cfg.env = Development /\ ret.cfg.logToFile /\ ret.cfg.rotate
    /\ ~ret.err
    /\ SinkKinds(ret.l.zap) = {"rotating", "console"}

\* C5: the production preset writes to the rotating file at logs/run.log and
\* the development preset writes to the console.
C5_ProductionPresetWritesFile ==
    /\ ret.op \in {"NewProduction", "InitProduction"} =>
          /\ ~ret.err
          /\ SinkKinds(ret.l.zap) = {"rotating"}
          /\ \A i \in DOMAIN ret.l.zap.core : ret.l.zap.core[i].path = DefaultPath
    /\ ret.op \in {"NewDevelopment", "InitDevelopment"} =>
          ~ret.err /\ SinkKinds(ret.l.zap) = {"console"}

\* C6 as stated: any successful build with logToFile set leaves the target
\* file (and its directory) in place when it did not exist before.
C6_FileCreatedWheneverLogToFile ==
    (/\ ret.op \in BuildOps
     /\ ret.cfg.logToFile
     /\ ~ret.err
     /\ ~isExist(ret.before, ret.cfg.rotatePath))
        => /\ isExist(fs, ret.cfg.rotatePath)
           /\ fs[ret.cfg.rotatePath].dir

\* C6 amended: a successful production build with logToFile set and rotate
\* unset leaves the target file and its directory in place when the file did
\* not exist before; no other build touches the file system.
C6_PlainFileCreated ==
    ret.op \in BuildOps =>
        IF /\ ret.cfg.env = Production /\ ret.cfg.logToFile /\ ~ret.cfg.rotate
        THEN ~ret.err => /\ isExist(fs, ret.cfg.rotatePath)
                         /\ fs[ret.cfg.rotatePath].dir
        ELSE fs = ret.before

\* C6's case: the production plain file did not exist and the build made it.
C6_Witness ==
    /\ ret.op \in BuildOps
    /\ ret.cfg.env = Production /\ ret.cfg.logToFile /\ ~ret.cfg.rotate
    /\ ~ret.err
    /\ ~ret.before[ret.cfg.rotatePath].dir
    /\ isExist(fs, ret.cfg.rotatePath)

(***************************************************************************)
(* SpecDerive: goroutines derive handles from the handles on the heap, one *)
(* statement at a time, and log through them.                              *)
(***************************************************************************)
Goroutines == {"g1", "g2"}

Idle == [pc |-> "idle"]

Msg == "hello"

\* context.WithValue(context.WithValue(ctx, RequestKey, r), UserKey, u)
Ctx(r, u) == [k \in {RequestKey, UserKey} |-> IF k = RequestKey THEN r ELSE u]

StringValue(s) == [type |-> "string", val |-> s]
IntValue(n) == [type |-> "int", val |-> n]

\* The contexts of the calls: each key absent, a string, or an int.
Ctxs ==
    {Ctx(NilValue, NilValue),
     Ctx(StringValue("r1"), IntValue("7")),
     Ctx(IntValue("7"), StringValue("u1")),
     Ctx(StringValue("r1"), StringValue("u1"))}

EmptyCtx == [k \in {} |-> NilValue]

\* The fields a caller passes to With.
WithFields == <<zapString("k", "v")>>

\* The handles SpecDerive starts from: the default one, one with its two key
\* names exchanged, and the production preset.
BaseOpts ==
    <<<<>>,
      <<WithRequestKey(UserKey), WithUserKey(RequestKey)>>,
      ProductionOpts>>

AllOk == [mkdir |-> TRUE, create |-> TRUE, open |-> TRUE]

NoFiles == [p \in Paths |-> [dir |-> FALSE, file |-> FALSE]]

\* How a heap cell came to be.
Origin(op, parent, ctx, own, born, overlap) ==
    [op |-> op, parent |-> parent, ctx |-> ctx, own |-> own, born |-> born,
     overlap |-> overlap]

\* What a call leaves with its caller: the receiver (a heap index, 0 for the
\* singleton), the arguments, the number of records written, whether it
\* panicked, the handle it returned and the clock at the call.
CallRet(op, l, ctx, err, fields, n, panic, handle, now) ==
    [op |-> op, l |-> l, ctx |-> ctx, err |-> err, fields |-> fields, n |-> n,
     panic |-> panic, handle |-> handle, now |-> now]

\* Cells allocated or about to be.
InFlight == Cardinality({g \in DOMAIN gor : gor[g].pc # "idle"})

\* l.With(fields...): the argument l.zap.With(fields...) is evaluated.
WithCall(g, i, fields) ==
    /\ status = "running"
    /\ gor[g].pc = "idle"
    /\ i \in DOMAIN heap
    /\ Len(heap) + InFlight < MaxHeap
    /\ gor' = [gor EXCEPT ![g] =
                 [pc |-> "return", op |-> "With", l |-> i, ctx |-> EmptyCtx,
                  fields |-> fields, newLogger |-> zapWith(heap[i].zap, fields)]]
    /\ UNCHANGED <<fs, logger, heap, derived, out, clock, spans, ret, status, lastInit>>

\* l.WithContext(ctx): newLogger := l.zap
WithContextCall(g, i, ctx) ==
    /\ status = "running"
    /\ gor[g].pc = "idle"
    /\ i \in DOMAIN heap
    /\ Len(heap) + InFlight < MaxHeap
    /\ gor' = [gor EXCEPT ![g] =
                 [pc |-> "request", op |-> "WithContext", l |-> i, ctx |-> ctx,
                  fields |-> <<>>, newLogger |-> heap[i].zap]]
    /\ UNCHANGED <<fs, logger, heap, derived, out, clock, spans, ret, status, lastInit>>

\* if requestID, ok := ctx.Value(l.requestKey).(string); ok { ... }
WithContextRequest(g) ==
    /\ status = "running"
    /\ gor[g].pc = "request"
    /\ gor' = [gor EXCEPT ![g].pc = "user",
                          ![g].newLogger =
                              ctxWith(@, gor[g].ctx, heap[gor[g].l].requestKey)]
    /\ UNCHANGED <<fs, logger, heap, derived, out, clock, spans, ret, status, lastInit>>

\* if userID, ok := ctx.Value(l.userKey).(string); ok { ... }
WithContextUser(g) ==
    /\ status = "running"
    /\ gor[g].pc = "user"
    /\ gor' = [gor EXCEPT ![g].pc = "return",
                          ![g].newLogger =
                              ctxWith(@, gor[g].ctx, heap[gor[g].l].userKey)]
    /\ UNCHANGED <<fs, logger, heap, derived, out, clock, spans, ret, status, lastInit>>

\* return &Logger{zap: ...}
DeriveReturn(g) ==
    /\ status = "running"
    /\ gor[g].pc = "return"
    /\ heap' = returnLogger(heap, gor[g])
    /\ derived' = Append(derived,
                         Origin(gor[g].op, gor[g].l, gor[g].ctx, gor[g].fields,
                                heap'[Len(heap')],
                                \E g2 \in DOMAIN gor \ {g} :
                                    gor[g2].pc # "idle" /\ gor[g2].l = gor[g].l))
    /\ gor' = [gor EXCEPT ![g] = Idle]
    /\ ret' = CallRet(gor[g].op, gor[g].l, gor[g].ctx, NilErr, gor[g].fields, 0, FALSE,
                     heap'[Len(heap')], clock)
    /\ out' = <<>>
    /\ UNCHANGED <<fs, logger, clock, spans, status, lastInit>>

\* What an emission leaves behind: the records it wrote, and the process gone
\* after Fatal.
Emitted(op, l, ctx, err, fields, recs, fatal) ==
    /\ status = "running"
    /\ out' = recs
    /\ status' = IF fatal THEN "exited" ELSE "running"
    /\ ret' = CallRet(op, l, ctx, err, fields, Len(recs), FALSE, Nil, clock)

\* A nil pointer dereference: the goroutine panics and the process dies.
Panicked(op, ctx, err, fields) ==
    /\ status = "running"
    /\ out' = <<>>
    /\ status' = "panicked"
    /\ ret' = CallRet(op, 0, ctx, err, fields, 0, TRUE, Nil, clock)

\* A call that returns a handle and writes nothing.
Returned(op, l, ctx, fields, handle) ==
    /\ status = "running"
    /\ out' = <<>>
    /\ status' = "running"
    /\ ret' = CallRet(op, l, ctx, NilErr, fields, 0, FALSE, handle, clock)

DoInfo(i, fields) ==
    /\ i \in DOMAIN heap
    /\ Emitted("Logger.Info", i, EmptyCtx, NilErr, fields,
               Info(heap[i], <<UserFrame>>, Msg, fields), FALSE)
    /\ UNCHANGED <<fs, logger, heap, derived, gor, clock, spans, lastInit>>

InitDerive ==
    /\ fs = NoFiles
    /\ logger = Nil
    /\ \E b \in DOMAIN BaseOpts :
          /\ heap = <<New(BaseOpts[b], fs, AllOk).l>>
          /\ derived = <<Origin("New", 0, EmptyCtx, <<>>, heap[1], FALSE)>>
    /\ gor = [g \in Goroutines |-> Idle]
    /\ out = <<>>
    /\ clock = 0
    /\ spans = <<>>
    /\ ret = NoRet
    /\ status = "running"
    /\ lastInit = "none"

NextDerive ==
    \/ \E g \in Goroutines, i \in 1..MaxHeap : WithCall(g, i, WithFields)
    \/ \E g \in Goroutines, i \in 1..MaxHeap, ctx \in Ctxs : WithContextCall(g, i, ctx)
    \/ \E g \in Goroutines : WithContextRequest(g)
    \/ \E g \in Goroutines : WithContextUser(g)
    \/ \E g \in Goroutines : DeriveReturn(g)
    \/ \E i \in 1..MaxHeap : DoInfo(i, <<zapString("n", "1")>>)

SpecDerive == InitDerive /\ [][NextDerive]_vars

(***************************************************************************)
(* Claims about derivation (checked under SpecDerive).                     *)
(***************************************************************************)
\* The fields of child cell c after those of its parent's.
OwnFields(c) ==
    SubSeq(heap[c].zap.fields,
           Len(derived[derived[c].parent].born.zap.fields) + 1,
           Len(heap[c].zap.fields))

\* The field the specification attaches for one key of a context.
Attached(ctx, key) ==
    IF key \in DOMAIN ctx /\ ctx[key].type = "string"
    THEN <<[key |-> key, type |-> "string", val |-> ctx[key].val]>>
    ELSE <<>>

\* C2: no derivation, in any interleaving, changes a handle that exists:
\* every handle is as it was allocated, a child's fields are its parent's
\* followed by its own (the fields given to With, or string fields named by
\* the parent's keys with the context's values), and a record logged through
\* a handle carries that handle's original fields followed by the call's.
C2_ParentUntouched ==
    /\ \A i \in DOMAIN heap : heap[i] = derived[i].born
    /\ \A c \in DOMAIN heap :
          derived[c].parent # 0 =>
             LET p == derived[c].parent
                 pf == derived[p].born.zap.fields
                 cf == heap[c].zap.fields
             IN /\ Len(cf) >= Len(pf)
                /\ SubSeq(cf, 1, Len(pf)) = pf
                /\ IF derived[c].op = "With"
                   THEN OwnFields(c) = derived[c].own
                   ELSE \A k \in DOMAIN OwnFields(c) :
                           /\ OwnFields(c)[k].key
                                 \in {derived[p].born.requestKey, derived[p].born.userKey}
                           /\ Value(derived[c].ctx, OwnFields(c)[k].key)
                                 = StringValue(OwnFields(c)[k].val)
    /\ (ret.op = "Logger.Info" /\ ret.n = 1) =>
          out[1].fields = derived[ret.l].born.zap.fields \o ret.fields

\* C2's case: two goroutines derived from handle 1 at the same time, one with
\* With and one with WithContext, and a record was then logged through 1.
C2_Witness ==
    /\ Len(heap) = 3
    /\ derived[2].parent = 1 /\ derived[3].parent = 1
    /\ {derived[2].op, derived[3].op} = {"With", "WithContext"}
    /\ derived[2].overlap
    /\ Len(heap[2].zap.fields) > Len(heap[1].zap.fields)
    /\ Len(heap[3].zap.fields) > Len(heap[1].zap.fields)
    /\ ret.op = "Logger.Info" /\ ret.l = 1 /\ ret.n = 1
    /\ out[1].fields = derived[1].born.zap.fields \o ret.fields

\* C3: WithContext attaches, for the request key and then the user key, a
\* string field named as the key exactly when the context holds a string
\* under it; the same handle and context always give the same fields; the
\* call cannot fail.
C3_ContextExtraction ==
    /\ status = "running"
    /\ \A c \in DOMAIN heap :
          derived[c].op = "WithContext" =>
             LET p == derived[c].parent IN
             heap[c].zap.fields
                = heap[p].zap.fields
                  \o Attached(derived[c].ctx, heap[p].requestKey)
                  \o Attached(derived[c].ctx, heap[p].userKey)
    /\ \A c, d \in DOMAIN heap :
          (/\ derived[c].op = "WithContext" /\ derived[d].op = "WithContext"
           /\ derived[c].parent = derived[d].parent
           /\ derived[c].ctx = derived[d].ctx)
             => heap[c].zap = heap[d].zap

\* C3's case: two derivations from one handle with a context holding a
\* string request id and a non-string user id: both carry the request field
\* alone.
C3_Witness ==
    /\ Len(heap) = 3
    /\ derived[2].op = "WithContext" /\ derived[3].op = "WithContext"
    /\ derived[2].parent = 1 /\ derived[3].parent = 1
    /\ derived[2].ctx = Ctx(StringValue("r1"), IntValue("7"))
    /\ derived[3].ctx = derived[2].ctx
    /\ heap[1].requestKey = RequestKey
    /\ heap[2].zap.fields = Append(heap[1].zap.fields, zapString(RequestKey, "r1"))
    /\ heap[3].zap = heap[2].zap

\* The correlation fields l.WithContext(ctx) adds to l's own.
Correlation(l, ctx) ==
    SubSeq(WithContext(l, ctx).zap.fields, Len(l.zap.fields) + 1,
           Len(WithContext(l, ctx).zap.fields))

\* C4: a handle made by With has the key names of its source, and for every
\* context WithContext on it attaches the fields it attaches on the source.
C4_WithKeepsKeyNames ==
    \A c \in DOMAIN heap :
        derived[c].op = "With" =>
           LET p == derived[c].parent IN
           /\ heap[c].requestKey = heap[p].requestKey
           /\ heap[c].userKey = heap[p].userKey
           /\ \A ctx \in Ctxs : Correlation(heap[c], ctx) = Correlation(heap[p], ctx)

(***************************************************************************)
(* SpecEmit: the singleton, every emission entry point, and Trace.         *)
(***************************************************************************)
\* The singleton cannot be used: it is nil, or its engine is.
Unusable(l) == l = Nil \/ l.zap = NilZap

Quiet == UNCHANGED <<fs, logger, heap, derived, gor, clock, spans, lastInit>>

\* A method call on the handle in heap cell i.
OnHandle(op, i, ctx, err, fields, recs, fatal) ==
    /\ i \in DOMAIN heap
    /\ Emitted(op, i, ctx, err, fields, recs, fatal)
    /\ Quiet

\* A package-level delegate: it dereferences the singleton first.
OnSingleton(op, ctx, err, fields, recs, fatal) ==
    /\ IF Unusable(logger)
       THEN Panicked(op, ctx, err, fields)
       ELSE Emitted(op, 0, ctx, err, fields, recs, fatal)
    /\ Quiet

DoDebug(i, fields) ==
    OnHandle("Logger.Debug", i, EmptyCtx, NilErr, fields,
             Debug(heap[i], <<UserFrame>>, Msg, fields), FALSE)

DoDebugCtx(i, ctx, fields) ==
    OnHandle("Logger.DebugCtx", i, ctx, NilErr, fields,
             DebugCtx(heap[i], <<UserFrame>>, ctx, Msg, fields), FALSE)

DoInfoCtx(i, ctx, fields) ==
    OnHandle("Logger.InfoCtx", i, ctx, NilErr, fields,
             InfoCtx(heap[i], <<UserFrame>>, ctx, Msg, fields), FALSE)

DoWarn(i, fields) ==
    OnHandle("Logger.Warn", i, EmptyCtx, NilErr, fields,
             Warn(heap[i], <<UserFrame>>, Msg, fields), FALSE)

DoWarnCtx(i, ctx, fields) ==
    OnHandle("Logger.WarnCtx", i, ctx, NilErr, fields,
             WarnCtx(heap[i], <<UserFrame>>, ctx, Msg, fields), FALSE)

DoError(i, err, fields) ==
    OnHandle("Logger.Error", i, EmptyCtx, err, fields,
             Error(heap[i], <<UserFrame>>, Msg, err, fields), FALSE)

DoErrorCtx(i, ctx, err, fields) ==
    OnHandle("Logger.ErrorCtx", i, ctx, err, fields,
             ErrorCtx(heap[i], <<UserFrame>>, ctx, Msg, err, fields), FALSE)

DoFatal(i, fields) ==
    OnHandle("Logger.Fatal", i, EmptyCtx, NilErr, fields,
             Fatal(heap[i], <<UserFrame>>, Msg, fields), TRUE)

DoFatalCtx(i, ctx, fields) ==
    OnHandle("Logger.FatalCtx", i, ctx, NilErr, fields,
             FatalCtx(heap[i], <<UserFrame>>, ctx, Msg, fields), TRUE)

\* (l *Logger).Sync: flushes; the engine's error is returned as it is.
DoSync(i, err) ==
    OnHandle("Logger.Sync", i, EmptyCtx, err, <<>>, <<>>, FALSE)

\* l.With(fields...), the handle kept by the caller.
DoWith(i, fields) ==
    /\ i \in DOMAIN heap
    /\ Len(heap) < 1 + MaxKept
    /\ Returned("Logger.With", i, EmptyCtx, fields, With(heap[i], fields))
    /\ heap' = Append(heap, With(heap[i], fields))
    /\ derived' = Append(derived,
                         Origin("With", i, EmptyCtx, fields, With(heap[i], fields), FALSE))
    /\ UNCHANGED <<fs, logger, gor, clock, spans, lastInit>>

\* l.WithContext(ctx), the handle used and dropped by the caller.
DoWithContext(i, ctx) ==
    /\ i \in DOMAIN heap
    /\ Returned("Logger.WithContext", i, ctx, <<>>, WithContext(heap[i], ctx))
    /\ Quiet

\* A span as the program holds it: the closure, with the handle and context
\* Trace was called on and what that call wrote.
Span(closure, l, ctx, start) ==
    [closure |-> closure, l |-> l, ctx |-> ctx, start |-> start]

DoTrace(i, ctx, funcName) ==
    /\ i \in DOMAIN heap
    /\ Len(spans) < MaxSpans
    /\ LET t == Trace(heap[i], <<UserFrame>>, ctx, funcName, clock) IN
       /\ Emitted("Logger.Trace", i, ctx, NilErr, <<>>, t.recs, FALSE)
       /\ spans' = Append(spans, Span(t.span, heap[i], ctx, t.recs))
    /\ UNCHANGED <<fs, logger, heap, derived, gor, clock, lastInit>>

\* The completion function of span s is called (by defer, or directly).
DoTraceDone(s) ==
    /\ s \in DOMAIN spans
    /\ Emitted("TraceDone", s, spans[s].ctx, NilErr, <<>>,
               TraceDone(spans[s].closure, <<UserFrame>>, clock), FALSE)
    /\ UNCHANGED <<fs, logger, heap, derived, gor, clock, spans, lastInit>>

\* Time passes.
Tick ==
    /\ status = "running"
    /\ clock < MaxClock
    /\ clock' = clock + 1
    /\ UNCHANGED <<fs, logger, heap, derived, gor, out, spans, ret, status, lastInit>>

DoPkgWith(fields) ==
    /\ IF Unusable(logger)
       THEN Panicked("With", EmptyCtx, NilErr, fields)
       ELSE Returned("With", 0, EmptyCtx, fields, PkgWith(fields))
    /\ Quiet

DoPkgWithContext(ctx) ==
    /\ IF Unusable(logger)
       THEN Panicked("WithContext", ctx, NilErr, <<>>)
       ELSE Returned("WithContext", 0, ctx, <<>>, PkgWithContext(ctx))
    /\ Quiet

DoPkgDebug(fields) ==
    OnSingleton("Debug", EmptyCtx, NilErr, fields,
                PkgDebug(<<UserFrame>>, Msg, fields), FALSE)

DoPkgDebugCtx(ctx, fields) ==
    OnSingleton("DebugCtx", ctx, NilErr, fields,
                PkgDebugCtx(<<UserFrame>>, ctx, Msg, fields), FALSE)

DoPkgInfo(fields) ==
    OnSingleton("Info", EmptyCtx, NilErr, fields,
                PkgInfo(<<UserFrame>>, Msg, fields), FALSE)

DoPkgInfoCtx(ctx, fields) ==
    OnSingleton("InfoCtx", ctx, NilErr, fields,
                PkgInfoCtx(<<UserFrame>>, ctx, Msg, fields), FALSE)

DoPkgWarn(fields) ==
    OnSingleton("Warn", EmptyCtx, NilErr, fields,
                PkgWarn(<<UserFrame>>, Msg, fields), FALSE)

DoPkgWarnCtx(ctx, fields) ==
    OnSingleton("WarnCtx", ctx, NilErr, fields,
                PkgWarnCtx(<<UserFrame>>, ctx, Msg, fields), FALSE)

DoPkgError(err, fields) ==
    OnSingleton("Error", EmptyCtx, err, fields,
                PkgError(<<UserFrame>>, Msg, err, fields), FALSE)

DoPkgErrorCtx(ctx, err, fields) ==
    OnSingleton("ErrorCtx", ctx, err, fields,
                PkgErrorCtx(<<UserFrame>>, ctx, Msg, err, fields), FALSE)

DoPkgFatal(fields) ==
    OnSingleton("Fatal", EmptyCtx, NilErr, fields,
                PkgFatal(<<UserFrame>>, Msg, fields), TRUE)

DoPkgFatalCtx(ctx, fields) ==
    OnSingleton("FatalCtx", ctx, NilErr, fields,
                PkgFatalCtx(<<UserFrame>>, ctx, Msg, fields), TRUE)

DoPkgSync(err) ==
    OnSingleton("Sync", EmptyCtx, err, <<>>, <<>>, FALSE)

DoPkgTrace(ctx, funcName) ==
    /\ Len(spans) < MaxSpans
    /\ IF Unusable(logger)
       THEN Panicked("Trace", ctx, NilErr, <<>>) /\ UNCHANGED spans
       ELSE LET t == PkgTrace(<<UserFrame>>, ctx, funcName, clock) IN
            /\ Emitted("Trace", 0, ctx, NilErr, <<>>, t.recs, FALSE)
            /\ spans' = Append(spans, Span(t.span, logger, ctx, t.recs))
    /\ UNCHANGED <<fs, logger, heap, derived, gor, clock, lastInit>>

\* The inputs of SpecEmit's calls.
EmitCtx == Ctx(StringValue("r1"), IntValue("7"))

Errs == {NilErr, "boom"}

CallFields == <<zapString("k", "v")>>

ErrFields == <<zapError("earlier")>>

\* The handles the program has built when SpecEmit starts.
EmitBaseOpts == <<DevelopmentOpts, ProductionOpts>>

InitEmit ==
    /\ fs = NoFiles
    /\ logger = Nil
    /\ \E b \in DOMAIN EmitBaseOpts :
          /\ heap = <<New(EmitBaseOpts[b], fs, AllOk).l>>
          /\ derived = <<Origin("New", 0, EmptyCtx, <<>>, heap[1], FALSE)>>
    /\ gor = [g \in Goroutines |-> Idle]
    /\ out = <<>>
    /\ clock = 0
    /\ spans = <<>>
    /\ ret = NoRet
    /\ status = "running"
    /\ lastInit = "none"

NextEmit ==
    \/ DoInit(<<WithEnv("staging")>>, AllOk)
    \/ DoInitDevelopment(AllOk)
    \/ DoInitProduction(AllOk)
    \/ \E i \in DOMAIN heap : DoDebug(i, CallFields)
    \/ \E i \in DOMAIN heap : DoDebugCtx(i, EmitCtx, CallFields)
    \/ \E i \in DOMAIN heap : DoInfo(i, CallFields)
    \/ \E i \in DOMAIN heap : DoInfoCtx(i, EmitCtx, CallFields)
    \/ \E i \in DOMAIN heap : DoWarn(i, CallFields)
    \/ \E i \in DOMAIN heap : DoWarnCtx(i, EmitCtx, CallFields)
    \/ \E i \in DOMAIN heap, err \in Errs : DoError(i, err, CallFields)
    \/ \E i \in DOMAIN heap, err \in Errs : DoErrorCtx(i, EmitCtx, err, CallFields)
    \/ \E i \in DOMAIN heap : DoFatal(i, CallFields)
    \/ \E i \in DOMAIN heap : DoFatalCtx(i, EmitCtx, CallFields)
    \/ \E i \in DOMAIN heap, err \in Errs : DoSync(i, err)
    \/ \E i \in DOMAIN heap : DoWith(i, ErrFields)
    \/ \E i \in DOMAIN heap : DoWithContext(i, EmitCtx)
    \/ \E i \in DOMAIN heap : DoTrace(i, EmitCtx, "work")
    \/ \E s \in DOMAIN spans : DoTraceDone(s)
    \/ DoPkgWith(CallFields)
    \/ DoPkgWithContext(EmitCtx)
    \/ DoPkgDebug(CallFields)
    \/ DoPkgDebugCtx(EmitCtx, CallFields)
    \/ DoPkgInfo(CallFields)
    \/ DoPkgInfoCtx(EmitCtx, CallFields)
    \/ DoPkgWarn(CallFields)
    \/ DoPkgWarnCtx(EmitCtx, CallFields)
    \/ \E err \in Errs : DoPkgError(err, CallFields)
    \/ \E err \in Errs : DoPkgErrorCtx(EmitCtx, err, CallFields)
    \/ DoPkgFatal(CallFields)
    \/ DoPkgFatalCtx(EmitCtx, CallFields)
    \/ \E err \in Errs : DoPkgSync(err)
    \/ DoPkgTrace(EmitCtx, "work")

SpecEmit == InitEmit /\ [][NextEmit]_vars

(***************************************************************************)
(* SpecTrace: spans over passing time, on a handle and on the singleton.   *)
(***************************************************************************)
TraceCtxs == {Ctx(NilValue, NilValue), Ctx(StringValue("r1"), IntValue("7"))}

NextTrace ==
    \/ DoInitDevelopment(AllOk)
    \/ DoInitProduction(AllOk)
    \/ \E i \in DOMAIN heap : DoWith(i, CallFields)
    \/ \E i \in DOMAIN heap, ctx \in TraceCtxs : DoTrace(i, ctx, "work")
    \/ \E ctx \in TraceCtxs : DoPkgTrace(ctx, "work")
    \/ \E s \in DOMAIN spans : DoTraceDone(s)
    \/ Tick

SpecTrace == InitEmit /\ [][NextTrace]_vars

(***************************************************************************)
(* Claims about emission and the singleton (checked under SpecEmit).       *)
(***************************************************************************)
\* C7: every record reports the user's call site as its caller, never a
\* frame of this package.
C7_CallerIsCallSite ==
    \A k \in DOMAIN out : out[k].caller = UserFrame

ErrorOps == {"Logger.Error", "Logger.ErrorCtx", "Error", "ErrorCtx"}

IsErrorField(f) == f.type = "error"

\* The handle the most recent call was made on.
Receiver == IF ret.l = 0 THEN logger ELSE heap[ret.l]

\* C9 as stated: an error-level call whose fields argument holds no error
\* field writes a record with the one error field zap.Error(err) when err is
\* not nil, and with no error field when it is nil.
C9_ErrorFieldIffErr ==
    (/\ ret.op \in ErrorOps
     /\ ~ret.panic
     /\ SelectSeq(ret.fields, IsErrorField) = <<>>)
        => /\ Len(out) = 1
           /\ SelectSeq(out[1].fields, IsErrorField)
                 = IF ret.err # NilErr THEN <<zapError(ret.err)>> ELSE <<>>

\* C9 amended: the same, for a handle that carries no error field of its
\* own (none was attached with With).
C9_ErrorFieldIffErrOnPlainHandle ==
    (/\ ret.op \in ErrorOps
     /\ ~ret.panic
     /\ SelectSeq(ret.fields, IsErrorField) = <<>>
     /\ SelectSeq(Receiver.zap.fields, IsErrorField) = <<>>)
        => /\ Len(out) = 1
           /\ out[1].level = "error"
           /\ SelectSeq(out[1].fields, IsErrorField)
                 = IF ret.err # NilErr THEN <<zapError(ret.err)>> ELSE <<>>

\* C9's case: the package-level ErrorCtx, which goes through WithContext
\* and Logger.Error, wrote the error once.
C9_Witness ==
    /\ ret.op = "ErrorCtx" /\ ~ret.panic /\ ret.err = "boom"
    /\ Len(out) = 1
    /\ SelectSeq(out[1].fields, IsErrorField) = <<zapError("boom")>>
    /\ out[1].fields[Len(out[1].fields)] = zapError("boom")

InitOps == {"Init", "InitDevelopment", "InitProduction"}

PkgOps == {"With", "WithContext", "Debug", "DebugCtx", "Info", "InfoCtx",
           "Warn", "WarnCtx", "Error", "ErrorCtx", "Fatal", "FatalCtx",
           "Trace", "Sync"}

\* C10: the singleton is a built handle exactly when the most recent Init*
\* succeeded, and nil otherwise (before any Init*, and after a failed one
\* even if an earlier one had succeeded); a package-level delegate panics
\* exactly when the singleton is nil, writing nothing.
C10_SingletonFollowsLastInit ==
    /\ logger # Nil <=> lastInit = "ok"
    /\ logger # Nil => logger.zap # NilZap
    /\ ret.op \in InitOps => (ret.err <=> logger = Nil)
    /\ ret.op \in PkgOps =>
          /\ ret.panic <=> logger = Nil
          /\ ret.panic <=> status = "panicked"
          /\ ret.panic => out = <<>>
    /\ status = "panicked" => ret.op \in PkgOps

\* C10's case: an Init* succeeded, a later one failed, and a delegate
\* panicked on the nil singleton.
C10_Witness ==
    /\ lastInit = "err after ok"
    /\ logger = Nil
    /\ ret.op \in PkgOps /\ ret.panic
    /\ status = "panicked"

(***************************************************************************)
(* Claims about Trace (checked under SpecTrace).                           *)
(***************************************************************************)
TraceOps == {"Logger.Trace", "Trace"}

DebugEnabled(l) == LevelRank("debug") >= LevelRank(l.zap.level)

\* The fields of a span's records before the function name: the handle's
\* own and the context's correlation fields.
SpanFields(l, ctx) ==
    l.zap.fields \o Attached(ctx, l.requestKey) \o Attached(ctx, l.userKey)

StartWritten(l, ctx, funcName) ==
    /\ Len(out) = 1
    /\ out[1].level = "debug"
    /\ out[1].message = "Starting function"
    /\ out[1].fields = Append(SpanFields(l, ctx), zapString("function", funcName))

FinishWritten(sp, now) ==
    /\ Len(out) = 1
    /\ out[1].level = "debug"
    /\ out[1].message = "Finished function"
    /\ out[1].fields
          = SpanFields(sp.l, sp.ctx)
            \o <<zapString("function", sp.closure.funcName),
                 zapDuration("duration", now - sp.closure.startTime)>>
    /\ now - sp.closure.startTime >= 0
    /\ Len(sp.start) = 1

\* C8 as stated: every Trace call writes exactly one start record, and every
\* call of its completion function exactly one finish record, after the
\* start record, with the elapsed time as its duration.
C8_TraceRecords ==
    /\ (ret.op \in TraceOps /\ ~ret.panic) =>
          /\ StartWritten(Receiver, ret.ctx, spans[Len(spans)].closure.funcName)
          /\ spans[Len(spans)].closure.startTime = ret.now
    /\ ret.op = "TraceDone" => FinishWritten(spans[ret.l], ret.now)

\* C8 amended: on a handle whose level threshold admits debug records (a
\* development handle) the records are written as stated; on any other
\* handle (production, threshold info) Trace and its completion function
\* write nothing.
C8_TraceRecordsWhenDebugEnabled ==
    /\ (ret.op \in TraceOps /\ ~ret.panic) =>
          /\ IF DebugEnabled(Receiver)
             THEN StartWritten(Receiver, ret.ctx, spans[Len(spans)].closure.funcName)
             ELSE out = <<>>
          /\ spans[Len(spans)].closure.startTime = ret.now
          /\ spans[Len(spans)].start = out
    /\ ret.op = "TraceDone" =>
          IF DebugEnabled(spans[ret.l].l)
          THEN FinishWritten(spans[ret.l], ret.now)
          ELSE out = <<>> /\ spans[ret.l].start = <<>>

\* C8's case: a completion function called after time has passed wrote a
\* finish record with that duration and the context's request id.
C8_Witness ==
    /\ ret.op = "TraceDone"
    /\ Len(out) = 1
    /\ out[1].fields[Len(out[1].fields)].type = "duration"
    /\ out[1].fields[Len(out[1].fields)].val > 0
    /\ \E k \in DOMAIN out[1].fields : out[1].fields[k] = zapString(RequestKey, "r1")
    /\ spans[ret.l].closure.frame = "logger.Trace.func1"

====
